---- MODULE Spec2Model ----
(***************************************************************************)
(* Dml::PooledUploadHeap (PooledUploadHeap.cpp): a pool of upload-heap     *)
(* chunks used as ring buffers, the cache of reusable copy command lists,  *)
(* and the GPU queue of the execution context that retires the copies.     *)
(*                                                                         *)
(* Heap objects the code refers to by raw pointer or iterator (Allocation  *)
(* list nodes, command-list list nodes, chunk resources) carry an address. *)
(* A new object gets a fresh address or the address of a freed object that *)
(* something still points to; a freed node keeps its last contents.        *)
(***************************************************************************)
EXTENDS Integers, Sequences, FiniteSets, TLC

\* ---------------------------------------------------------------- bounds
\* Number of BeginUploadToGpu / BeginReusableUploadToGpu calls explored.
MaxCalls == 4

\* The calls of a run in which device, mapping and execution steps can fail.
MaxFailCalls == 4

\* The Alloc calls of a run of the bucket allocator.
MaxAllocs == 4

\* The SetDefaultRoundingMode calls of a run of the bucket allocator.
MaxModeCalls == 1

\* ------------------------------------------------------ program constants
\* PooledUploadHeap.h is not part of the sources; the values are those of the
\* specification's scenarios (chunk of 1024 bytes, alignment 16, two lists).
c_minChunkSize == 1024
c_allocationAlignment == 16
maxReusableCommandLists == 2

\* ----------------------------------------------------------------- inputs
\* (dst, dstOffset, src.size()) of a call; the destination ranges are disjoint.
Keys ==
    { [dstResource |-> "R1", dstOffset |-> 0, srcSizeInBytes |-> 300],
      [dstResource |-> "R2", dstOffset |-> 0, srcSizeInBytes |-> 200],
      [dstResource |-> "R3", dstOffset |-> 0, srcSizeInBytes |-> 600] }

NoKey == [dstResource |-> "none", dstOffset |-> 0, srcSizeInBytes |-> 0]
NoOffset == -1
Garbage == -1

VARIABLES
    m_chunks,                    \* std::vector<Chunk>
    m_totalCapacity,             \* size_t
    m_reusableCommandLists,      \* std::list<ReusableCopyCommandListState>, as node addresses
    m_reusableCommandListsCache, \* key -> list iterator (node address)
    nodeMem,                     \* contents of every list node ever allocated, freed ones included
    allocMem,                    \* offsetInChunk last stored at every Allocation address
    gpuQueue,                    \* copies submitted to the execution context, not yet retired
    completed,                   \* number of copies the GPU has retired (fence value)
    staging,                     \* bytes of each live chunk resource: written regions
    dstMem,                      \* bytes of each destination range
    calls,                       \* upload calls made so far
    crashed,                     \* the process died on an invalid access
    lastCall,                    \* history: what the most recent public call did
    lastUse,                     \* history: ordinal of the last cached call per key
    lastRetired                  \* history: the request whose copy retired last

\* The state of the pooled upload heap.
heapVars == << m_chunks, m_totalCapacity, m_reusableCommandLists,
               m_reusableCommandListsCache, nodeMem, allocMem, gpuQueue, completed,
               staging, dstMem, calls, crashed, lastCall, lastUse, lastRetired >>

VARIABLES
    m_pool,                      \* std::vector<Bucket>: per bucket index, its idle resources
    m_currentResourceId,         \* uint64_t
    m_defaultRoundingMode,       \* AllocatorRoundingMode
    current_allocation_id,       \* uint32_t current_allocation_id_
    free_allocation_ids,         \* std::vector<uint32_t> free_allocation_ids_
    allocations_by_id,           \* allocation ID -> AllocationInfo
    pointers,                    \* the pointers Alloc has returned and Free has not taken back
    allocCalls,                  \* Alloc calls made so far
    modeCalls,                   \* SetDefaultRoundingMode calls made so far
    issuedIds,                   \* history: every allocation ID ever returned
    lastOp                       \* history: what the most recent allocator call did

\* The state of the bucket allocator.
bucketVars == << m_pool, m_currentResourceId, m_defaultRoundingMode,
                 current_allocation_id, free_allocation_ids, allocations_by_id,
                 pointers, allocCalls, modeCalls, issuedIds, lastOp >>

vars == << heapVars, bucketVars >>

\* ---------------------------------------------------------------- helpers
Range(s) == { s[i] : i \in DOMAIN s }

Max2(a, b) == IF a >= b THEN a ELSE b

RECURSIVE SumCapacity(_)
SumCapacity(chunks) ==
    IF chunks = << >> THEN 0
    ELSE Head(chunks).capacityInBytes + SumCapacity(Tail(chunks))

\* ------------------------------------------------------- execution context
\* m_executionContext->GetCurrentCompletionEvent(): fires once everything
\* enqueued so far has retired.
Submitted == completed + Len(gpuQueue)

GetCurrentCompletionEvent == Submitted

IsSignaled(event) == event <= completed

\* ------------------------------------------------------------- placement
\* Mutant of Align: the offset is not rounded up.
Align_NotRounded(offset, alignment) == offset

\* Align (PooledUploadHeap.cpp:16-20); alignment is a power of two, so the
\* mask (offset + alignment - 1) & ~(alignment - 1) rounds up to a multiple.
Align(offset, alignment) ==
    ((offset + alignment - 1) \div alignment) * alignment

\* Mutant of FindOffsetForAllocation: the space after the last allocation is
\* taken without the comparison with the chunk's capacity (61).
FindOffsetForAllocation_NoCapacityCheck(chunk, sizeInBytes) ==
    IF chunk.capacityInBytes < sizeInBytes THEN NoOffset
    ELSE IF chunk.allocations = << >> THEN 0
    ELSE
        LET lastAllocation == chunk.allocations[Len(chunk.allocations)]
            firstAllocation == chunk.allocations[1]
            newAllocationBegin ==
                Align(lastAllocation.offsetInChunk + lastAllocation.sizeInBytes,
                      c_allocationAlignment)
        IN  IF firstAllocation.offsetInChunk <= lastAllocation.offsetInChunk
            THEN newAllocationBegin
            ELSE IF newAllocationBegin + sizeInBytes <= firstAllocation.offsetInChunk
                 THEN newAllocationBegin
                 ELSE NoOffset

\* Mutant of FindOffsetForAllocation: the beginning of the chunk is never
\* tried when the space after the last allocation is too small (70).
FindOffsetForAllocation_NoWrap(chunk, sizeInBytes) ==
    IF chunk.capacityInBytes < sizeInBytes THEN NoOffset
    ELSE IF chunk.allocations = << >> THEN 0
    ELSE
        LET lastAllocation == chunk.allocations[Len(chunk.allocations)]
            firstAllocation == chunk.allocations[1]
            newAllocationBegin ==
                Align(lastAllocation.offsetInChunk + lastAllocation.sizeInBytes,
                      c_allocationAlignment)
        IN  IF firstAllocation.offsetInChunk <= lastAllocation.offsetInChunk
            THEN IF newAllocationBegin + sizeInBytes <= chunk.capacityInBytes
                 THEN newAllocationBegin
                 ELSE NoOffset
            ELSE IF newAllocationBegin + sizeInBytes <= firstAllocation.offsetInChunk
                 THEN newAllocationBegin
                 ELSE NoOffset

\* FindOffsetForAllocation (22-94). The overflow guard of line 45 cannot
\* fire: offsets and sizes stay far below 2^64.
FindOffsetForAllocation(chunk, sizeInBytes) ==
    IF chunk.capacityInBytes < sizeInBytes THEN NoOffset
    ELSE IF chunk.allocations = << >> THEN 0
    ELSE
        LET lastAllocation == chunk.allocations[Len(chunk.allocations)]
            firstAllocation == chunk.allocations[1]
            newAllocationBegin ==
                Align(lastAllocation.offsetInChunk + lastAllocation.sizeInBytes,
                      c_allocationAlignment)
        IN  IF firstAllocation.offsetInChunk <= lastAllocation.offsetInChunk
            THEN IF newAllocationBegin + sizeInBytes <= chunk.capacityInBytes
                 THEN newAllocationBegin
                 ELSE IF 0 + sizeInBytes <= firstAllocation.offsetInChunk
                      THEN 0
                      ELSE NoOffset
            ELSE IF newAllocationBegin + sizeInBytes <= firstAllocation.offsetInChunk
                 THEN newAllocationBegin
                 ELSE NoOffset

\* CreateChunk (96-111): an upload buffer of sizeInBytes with no allocations.
CreateChunk(sizeInBytes, resource) ==
    [capacityInBytes |-> sizeInBytes, resource |-> resource, allocations |-> << >>]

\* std::max({ m_totalCapacity, c_minChunkSize, sizeInBytes }) (129)
NewChunkSize(totalCapacity, sizeInBytes) ==
    Max2(totalCapacity, Max2(c_minChunkSize, sizeInBytes))

\* Reserve (113-135): the first chunk, in m_chunks order, that accepts the
\* request; else a new chunk appended to the list. Yields the chunk list
\* and total capacity after the call and the place reserved.
Reserve(chunks, totalCapacity, sizeInBytes, newResource) ==
    LET fits == { i \in DOMAIN chunks :
                    FindOffsetForAllocation(chunks[i], sizeInBytes) # NoOffset }
    IN  IF fits # {}
        THEN LET i == CHOOSE j \in fits : \A k \in fits : j <= k
             IN  [chunks |-> chunks, totalCapacity |-> totalCapacity, index |-> i,
                  offset |-> FindOffsetForAllocation(chunks[i], sizeInBytes),
                  grew |-> FALSE]
        ELSE LET newChunkSize == NewChunkSize(totalCapacity, sizeInBytes)
             IN  [chunks |-> Append(chunks, CreateChunk(newChunkSize, newResource)),
                  totalCapacity |-> totalCapacity + newChunkSize,
                  index |-> Len(chunks) + 1, offset |-> 0, grew |-> TRUE]

\* ----------------------------------------------------------- reclamation
\* Mutant of Reclaimable: the lock is not looked at.
Reclaimable_IgnoresLock(allocation) == IsSignaled(allocation.doneEvent)

\* The remove_if predicate of ReclaimAllocations (142-144).
Reclaimable(allocation) ==
    ~allocation.locked /\ IsSignaled(allocation.doneEvent)

\* ReclaimAllocations (137-146)
ReclaimAllocations(chunks) ==
    [i \in DOMAIN chunks |->
        [chunks[i] EXCEPT !.allocations =
            SelectSeq(@, LAMBDA allocation : ~Reclaimable(allocation))]]

\* ---------------------------------------------------- pointers into chunks
AllAllocations(chunks) ==
    UNION { Range(chunks[i].allocations) : i \in DOMAIN chunks }

LiveAllocAddrs(chunks) == { a.addr : a \in AllAllocations(chunks) }

LiveResources(chunks) == { chunks[i].resource : i \in DOMAIN chunks }

\* Mutant of Unlock: the allocation stays locked.
Unlock_Skipped(chunks, addr) == chunks

\* allocation->locked = false through the raw Allocation pointer (216)
Unlock(chunks, addr) ==
    [i \in DOMAIN chunks |->
        [chunks[i] EXCEPT !.allocations =
            [j \in DOMAIN @ |-> IF @[j].addr = addr
                                THEN [@[j] EXCEPT !.locked = FALSE] ELSE @[j]]]]

\* Mutant of SetDoneEvent: the event is not refreshed.
SetDoneEvent_NotRefreshed(chunks, addr, event) == chunks

\* allocation->doneEvent = event through the raw Allocation pointer (310)
SetDoneEvent(chunks, addr, event) ==
    [i \in DOMAIN chunks |->
        [chunks[i] EXCEPT !.allocations =
            [j \in DOMAIN @ |-> IF @[j].addr = addr
                                THEN [@[j] EXCEPT !.doneEvent = event] ELSE @[j]]]]

\* Mutant of PushAllocation: the allocation is put at the front of the list.
PushAllocation_Front(chunks, index, allocation) ==
    [chunks EXCEPT ![index].allocations = << allocation >> \o @]

\* chunk->allocations.push_back(...) (188, 274)
PushAllocation(chunks, index, allocation) ==
    [chunks EXCEPT ![index].allocations = Append(@, allocation)]

\* ------------------------------------------------------- staging memory
Overlaps(o1, s1, o2, s2) == o1 < o2 + s2 /\ o2 < o1 + s1

\* Map + memcpy + Unmap (171-173, 248-250, 301-303): the bytes of src land at
\* offsetInChunk of the resource and replace what was there.
WriteStaging(mem, chunks, resource, offsetInChunk, sizeInBytes, data) ==
    IF resource \notin LiveResources(chunks) THEN mem
    ELSE LET chunk == CHOOSE c \in Range(chunks) : c.resource = resource
             old == IF resource \in DOMAIN mem THEN mem[resource] ELSE {}
             kept == { r \in old : ~Overlaps(r.offsetInChunk, r.sizeInBytes,
                                              offsetInChunk, sizeInBytes) }
             new == IF offsetInChunk + sizeInBytes <= chunk.capacityInBytes
                    THEN { [offsetInChunk |-> offsetInChunk,
                            sizeInBytes |-> sizeInBytes, data |-> data] }
                    ELSE {}
         IN  (resource :> (kept \cup new)) @@ mem

\* What a GPU copy reads at (resource, offset, size).
ReadStaging(mem, resource, offsetInChunk, sizeInBytes) ==
    IF resource \in DOMAIN mem
       /\ \E r \in mem[resource] :
            r.offsetInChunk = offsetInChunk /\ r.sizeInBytes = sizeInBytes
    THEN (CHOOSE r \in mem[resource] :
            r.offsetInChunk = offsetInChunk /\ r.sizeInBytes = sizeInBytes).data
    ELSE Garbage

\* The staging memory of the resources that still exist; a new chunk starts blank.
LiveStaging(mem, chunks, fresh) ==
    [r \in LiveResources(chunks) |->
        IF r \in DOMAIN mem /\ r \notin fresh THEN mem[r] ELSE {}]

\* --------------------------------------------------- freed, still pointed to
\* Addresses a new object may take: a fresh one, or that of a freed object
\* that a stale pointer or iterator still names.
DanglingResources ==
    ({ nodeMem[a].chunkResource : a \in DOMAIN nodeMem }
        \cup { gpuQueue[i].srcResource : i \in DOMAIN gpuQueue })
    \ LiveResources(m_chunks)

ResourceChoices == { calls + 1 } \cup DanglingResources

AllocAddrChoices(chunks) ==
    { calls + 1 }
    \cup ({ nodeMem[a].allocation : a \in DOMAIN nodeMem } \ LiveAllocAddrs(chunks))

NodeAddrChoices(list) ==
    { calls + 1 }
    \cup ({ m_reusableCommandListsCache[k] : k \in DOMAIN m_reusableCommandListsCache }
            \ Range(list))

\* ======================================================= bucket allocator
\* BucketizedBufferAllocator.h declares the allocator; its member functions
\* are defined outside the files at hand and are taken from the specification.
c_minResourceSizeExponent == 16

\* The sizes Alloc is asked for.
Sizes == { 100, 65536, 65537, 1048576 }

RoundingModes == { "Enabled", "Disabled" }

NoBucket == -1

\* The smallest k with 2^k >= n, which is ceil(log2(n)) for n >= 1.
RECURSIVE CeilLog2(_)
CeilLog2(n) == IF n <= 1 THEN 0 ELSE 1 + CeilLog2((n + 1) \div 2)

\* Mutant of GetBucketIndexFromSize: the index is one bucket too low.
GetBucketIndexFromSize_OneLess(size) ==
    Max2(0, CeilLog2(size) - c_minResourceSizeExponent - 1)

\* bucketIndex(size) = max(0, ceil(log2(size)) - 16)
GetBucketIndexFromSize(size) ==
    Max2(0, CeilLog2(size) - c_minResourceSizeExponent)

\* bucketSize(index) = 1 << (16 + index)
GetBucketSizeFromIndex(index) == 2 ^ (index + c_minResourceSizeExponent)

BucketIndexes == { GetBucketIndexFromSize(size) : size \in Sizes }

\* Mutant of TryReserveAllocationID: a released ID is never taken.
TryReserveAllocationID_AlwaysNew(freeIds, currentId) ==
    [id |-> currentId + 1, freeIds |-> freeIds, currentId |-> currentId + 1]

\* Mutant of TryReserveAllocationID: the released ID is handed out and stays
\* in the pool.
TryReserveAllocationID_NotPopped(freeIds, currentId) ==
    IF freeIds # << >>
    THEN [id |-> freeIds[Len(freeIds)], freeIds |-> freeIds, currentId |-> currentId]
    ELSE [id |-> currentId + 1, freeIds |-> freeIds, currentId |-> currentId + 1]

\* TryReserveAllocationID: pop from free_allocation_ids (a std::vector, whose
\* pop takes the back) when it is not empty, else increment
\* current_allocation_id. The 32-bit ID space is never exhausted here.
TryReserveAllocationID(freeIds, currentId) ==
    IF freeIds # << >>
    THEN [id |-> freeIds[Len(freeIds)],
          freeIds |-> SubSeq(freeIds, 1, Len(freeIds) - 1),
          currentId |-> currentId]
    ELSE [id |-> currentId + 1, freeIds |-> freeIds, currentId |-> currentId + 1]

\* ReleaseAllocationID: the ID goes back to the pool, which is not reordered.
ReleaseAllocationID(freeIds, id) == Append(freeIds, id)

\* Mutant of TakeResource: a new backing is created although the bucket has
\* an idle resource.
TakeResource_NeverReused(bucket, currentResourceId, sizeInBytes) ==
    [resource |-> [resourceId |-> currentResourceId + 1, sizeInBytes |-> sizeInBytes],
     bucket |-> bucket, currentResourceId |-> currentResourceId + 1, created |-> TRUE]

\* The resource for a request: popped from the bucket's free list when that
\* is not empty, else a new backing with the next resourceId.
TakeResource(bucket, currentResourceId, sizeInBytes) ==
    IF bucket # << >>
    THEN [resource |-> bucket[Len(bucket)],
          bucket |-> SubSeq(bucket, 1, Len(bucket) - 1),
          currentResourceId |-> currentResourceId, created |-> FALSE]
    ELSE [resource |-> [resourceId |-> currentResourceId + 1,
                        sizeInBytes |-> sizeInBytes],
          bucket |-> bucket, currentResourceId |-> currentResourceId + 1,
          created |-> TRUE]

\* GetAllocationInfo(ptr): the lookup in allocations_by_id.
GetAllocationInfo(ptr) == allocations_by_id[ptr]

NoOp ==
    [op |-> "none", ptr |-> 0, bucketIndex |-> NoBucket, resourceId |-> 0,
     created |-> FALSE]

\* The members' initializers (BucketizedBufferAllocator.h:112-151).
BucketInit ==
    /\ m_pool = [index \in BucketIndexes |-> << >>]
    /\ m_currentResourceId = 0
    /\ m_defaultRoundingMode = "Enabled"
    /\ current_allocation_id = 0
    /\ free_allocation_ids = << >>
    /\ allocations_by_id = << >>
    /\ pointers = << >>
    /\ allocCalls = 0
    /\ modeCalls = 0
    /\ issuedIds = {}
    /\ lastOp = NoOp

\* Alloc(size): with rounding Enabled the request goes to its bucket; with
\* rounding Disabled it gets a dedicated resource of its own size.
Alloc(size) ==
    /\ allocCalls < MaxAllocs
    /\ LET pooled == m_defaultRoundingMode = "Enabled"
           index == GetBucketIndexFromSize(size)
           taken == IF pooled
                    THEN TakeResource(m_pool[index], m_currentResourceId,
                                      GetBucketSizeFromIndex(index))
                    ELSE TakeResource(<< >>, m_currentResourceId, size)
           reserved == TryReserveAllocationID(free_allocation_ids,
                                              current_allocation_id)
           info == [allocationId |-> reserved.id,
                    bucketIndex |-> IF pooled THEN index ELSE NoBucket,
                    resource |-> taken.resource, requestedSize |-> size,
                    roundingMode |-> m_defaultRoundingMode]
       IN  /\ m_pool' = IF pooled THEN [m_pool EXCEPT ![index] = taken.bucket]
                        ELSE m_pool
           /\ m_currentResourceId' = taken.currentResourceId
           /\ free_allocation_ids' = reserved.freeIds
           /\ current_allocation_id' = reserved.currentId
           /\ allocations_by_id' = (reserved.id :> info) @@ allocations_by_id
           /\ pointers' = Append(pointers, reserved.id)
           /\ issuedIds' = issuedIds \cup { reserved.id }
           /\ lastOp' = [op |-> "alloc", ptr |-> reserved.id,
                         bucketIndex |-> info.bucketIndex,
                         resourceId |-> taken.resource.resourceId,
                         created |-> taken.created]
    /\ allocCalls' = allocCalls + 1
    /\ UNCHANGED << m_defaultRoundingMode, modeCalls >>
    /\ UNCHANGED heapVars

\* Free(ptr) of the i-th outstanding pointer: the resource returns to its
\* bucket, the ID to the pool, and the mapping is erased.
Free(i) ==
    /\ i \in DOMAIN pointers
    /\ LET ptr == pointers[i]
           info == GetAllocationInfo(ptr)
       IN  /\ m_pool' = IF info.bucketIndex # NoBucket
                        THEN [m_pool EXCEPT ![info.bucketIndex] =
                                 Append(@, info.resource)]
                        ELSE m_pool
           /\ free_allocation_ids' = ReleaseAllocationID(free_allocation_ids, ptr)
           /\ allocations_by_id' =
                 [id \in DOMAIN allocations_by_id \ { ptr } |-> allocations_by_id[id]]
           /\ pointers' = [j \in 1..(Len(pointers) - 1) |->
                              IF j < i THEN pointers[j] ELSE pointers[j + 1]]
           /\ lastOp' = [op |-> "free", ptr |-> ptr,
                         bucketIndex |-> info.bucketIndex,
                         resourceId |-> info.resource.resourceId,
                         created |-> FALSE]
    /\ UNCHANGED << m_currentResourceId, m_defaultRoundingMode,
                    current_allocation_id, allocCalls, modeCalls, issuedIds >>
    /\ UNCHANGED heapVars

\* SetDefaultRoundingMode(mode)
SetDefaultRoundingMode(roundingMode) ==
    /\ modeCalls < MaxModeCalls
    /\ roundingMode # m_defaultRoundingMode
    /\ modeCalls' = modeCalls + 1
    /\ m_defaultRoundingMode' = roundingMode
    /\ lastOp' = [NoOp EXCEPT !.op = "mode"]
    /\ UNCHANGED << m_pool, m_currentResourceId, current_allocation_id,
                    free_allocation_ids, allocations_by_id, pointers, allocCalls,
                    issuedIds >>
    /\ UNCHANGED heapVars

\* ------------------------------------------------------------------ state
NoCall ==
    [op |-> "none", key |-> NoKey, hit |-> FALSE, evicted |-> NoKey,
     resource |-> 0, offset |-> NoOffset, ret |-> 0, grew |-> FALSE]

Init ==
    /\ m_chunks = << >>
    /\ m_totalCapacity = 0
    /\ m_reusableCommandLists = << >>
    /\ m_reusableCommandListsCache = << >>
    /\ nodeMem = << >>
    /\ allocMem = << >>
    /\ gpuQueue = << >>
    /\ completed = 0
    /\ staging = << >>
    /\ dstMem = [k \in Keys |-> 0]
    /\ calls = 0
    /\ crashed = FALSE
    /\ lastCall = NoCall
    /\ lastUse = [k \in Keys |-> 0]
    /\ lastRetired = [key |-> NoKey, data |-> 0]
    /\ BucketInit

\* ------------------------------------------------------- BeginUploadToGpu
\* BeginUploadToGpu (148-191). src is the call's ordinal, so every call
\* uploads different bytes.
BeginUploadToGpu(key, newResource, newAddr) ==
    /\ ~crashed
    /\ calls < MaxCalls
    /\ LET src == calls + 1
           reclaimed == ReclaimAllocations(m_chunks)
           r == Reserve(reclaimed, m_totalCapacity, key.srcSizeInBytes, newResource)
           chunk == r.chunks[r.index]
           doneEvent == Submitted + 1
           allocation == [addr |-> newAddr, sizeInBytes |-> key.srcSizeInBytes,
                          offsetInChunk |-> r.offset, doneEvent |-> doneEvent,
                          locked |-> FALSE]
       IN  /\ newAddr \in AllocAddrChoices(reclaimed)
           /\ m_chunks' = PushAllocation(r.chunks, r.index, allocation)
           /\ m_totalCapacity' = r.totalCapacity
           /\ allocMem' = (newAddr :> r.offset) @@ allocMem
           /\ staging' = WriteStaging(
                            LiveStaging(staging, r.chunks,
                                        IF r.grew THEN {newResource} ELSE {}),
                            r.chunks, chunk.resource, r.offset, key.srcSizeInBytes, src)
           /\ gpuQueue' = Append(gpuQueue,
                            [dst |-> key, srcResource |-> chunk.resource,
                             srcOffset |-> r.offset, sizeInBytes |-> key.srcSizeInBytes,
                             reqKey |-> key, reqData |-> src])
           /\ lastCall' = [op |-> "upload", key |-> key, hit |-> FALSE, evicted |-> NoKey,
                           resource |-> chunk.resource, offset |-> r.offset,
                           ret |-> doneEvent, grew |-> r.grew]
    /\ calls' = calls + 1
    /\ UNCHANGED << m_reusableCommandLists, m_reusableCommandListsCache, nodeMem,
                    completed, dstMem, crashed, lastUse, lastRetired >>
    /\ UNCHANGED bucketVars

\* ------------------------------------------------ BeginReusableUploadToGpu
\* Mutant of CacheMiss: the lookup never finds the key.
CacheMiss_Always(cache, key) == TRUE

\* cacheIter == m_reusableCommandListsCache.end() (209, 223)
CacheMiss(cache, key) == key \notin DOMAIN cache

\* Mutant of NeedsEviction: the list is let grow one entry too far.
NeedsEviction_OneTooMany(cache, list, key) ==
    CacheMiss(cache, key) /\ Len(list) > maxReusableCommandLists

\* The condition of the eviction (212).
NeedsEviction(cache, list, key) ==
    CacheMiss(cache, key) /\ Len(list) = maxReusableCommandLists

\* m_reusableCommandListsCache.erase(key) (218)
CacheErase(cache, key) == [k \in DOMAIN cache \ {key} |-> cache[k]]

\* The offset read through node.allocation (296): that of the Allocation now at
\* the address, else what the freed memory still holds.
OffsetThrough(chunks, addr) ==
    IF addr \in LiveAllocAddrs(chunks)
    THEN (CHOOSE a \in AllAllocations(chunks) : a.addr = addr).offsetInChunk
    ELSE allocMem[addr]

BeginReusableUploadToGpu(key, newResource, newAddr, newNode) ==
    /\ ~crashed
    /\ calls < MaxCalls
    /\ LET src == calls + 1
           miss == CacheMiss(m_reusableCommandListsCache, key)
           evict == NeedsEviction(m_reusableCommandListsCache, m_reusableCommandLists, key)
           front == nodeMem[Head(m_reusableCommandLists)]
           unlocked == IF evict THEN Unlock(m_chunks, front.allocation) ELSE m_chunks
           list == IF evict THEN Tail(m_reusableCommandLists) ELSE m_reusableCommandLists
           cache == IF evict THEN CacheErase(m_reusableCommandListsCache, key)
                    ELSE m_reusableCommandListsCache
           reclaimed == ReclaimAllocations(unlocked)
       IN  IF miss
           THEN
             LET r == Reserve(reclaimed, m_totalCapacity, key.srcSizeInBytes, newResource)
                 chunk == r.chunks[r.index]
                 doneEvent == GetCurrentCompletionEvent
                 allocation == [addr |-> newAddr, sizeInBytes |-> key.srcSizeInBytes,
                                offsetInChunk |-> r.offset, doneEvent |-> doneEvent,
                                locked |-> TRUE]
                 commandListState ==
                    [allocation |-> newAddr, chunkResource |-> chunk.resource,
                     commandList |-> [dst |-> key, srcResource |-> chunk.resource,
                                      srcOffset |-> r.offset,
                                      sizeInBytes |-> key.srcSizeInBytes]]
             IN  /\ newAddr \in AllocAddrChoices(reclaimed)
                 /\ newNode \in NodeAddrChoices(list)
                 /\ m_chunks' = PushAllocation(r.chunks, r.index, allocation)
                 /\ m_totalCapacity' = r.totalCapacity
                 /\ allocMem' = (newAddr :> r.offset) @@ allocMem
                 /\ staging' = WriteStaging(
                                  LiveStaging(staging, r.chunks,
                                              IF r.grew THEN {newResource} ELSE {}),
                                  r.chunks, chunk.resource, r.offset,
                                  key.srcSizeInBytes, src)
                 /\ gpuQueue' = Append(gpuQueue,
                                  [dst |-> key, srcResource |-> chunk.resource,
                                   srcOffset |-> r.offset,
                                   sizeInBytes |-> key.srcSizeInBytes,
                                   reqKey |-> key, reqData |-> src])
                 /\ m_reusableCommandLists' = Append(list, newNode)
                 /\ nodeMem' = (newNode :> commandListState) @@ nodeMem
                 /\ m_reusableCommandListsCache' = (key :> newNode) @@ cache
                 /\ lastCall' = [op |-> "reusable", key |-> key, hit |-> FALSE,
                                 evicted |-> IF evict THEN front.commandList.dst ELSE NoKey,
                                 resource |-> chunk.resource, offset |-> r.offset,
                                 ret |-> Submitted + 1, grew |-> r.grew]
           ELSE
             LET node == nodeMem[m_reusableCommandListsCache[key]]
                 offsetInChunk == OffsetThrough(reclaimed, node.allocation)
                 chunkResource == node.chunkResource
                 event == Submitted + 1
             IN  /\ staging' = WriteStaging(staging, reclaimed, chunkResource,
                                            offsetInChunk, key.srcSizeInBytes, src)
                 /\ gpuQueue' = Append(gpuQueue,
                                  [dst |-> node.commandList.dst,
                                   srcResource |-> node.commandList.srcResource,
                                   srcOffset |-> node.commandList.srcOffset,
                                   sizeInBytes |-> node.commandList.sizeInBytes,
                                   reqKey |-> key, reqData |-> src])
                 /\ m_chunks' = SetDoneEvent(reclaimed, node.allocation, event)
                 /\ m_reusableCommandLists' = list
                 /\ lastCall' = [op |-> "reusable", key |-> key, hit |-> TRUE,
                                 evicted |-> NoKey, resource |-> chunkResource,
                                 offset |-> offsetInChunk, ret |-> event, grew |-> FALSE]
                 /\ UNCHANGED << m_totalCapacity, allocMem, nodeMem,
                                 m_reusableCommandListsCache >>
    /\ calls' = calls + 1
    /\ lastUse' = [lastUse EXCEPT ![key] = calls + 1]
    /\ UNCHANGED << completed, dstMem, crashed, lastRetired >>
    /\ UNCHANGED bucketVars

\* A cache hit whose iterator names a list node that pop_front (217) has
\* freed: reading the node is an invalid access, and one outcome is that the
\* process dies (the other outcomes are those of BeginReusableUploadToGpu).
BeginReusableUploadToGpuFault(key) ==
    /\ ~crashed
    /\ calls < MaxCalls
    /\ key \in DOMAIN m_reusableCommandListsCache
    /\ m_reusableCommandListsCache[key] \notin Range(m_reusableCommandLists)
    /\ crashed' = TRUE
    /\ UNCHANGED << m_chunks, m_totalCapacity, m_reusableCommandLists,
                    m_reusableCommandListsCache, nodeMem, allocMem, gpuQueue, completed,
                    staging, dstMem, calls, lastCall, lastUse, lastRetired >>
    /\ UNCHANGED bucketVars

\* ------------------------------------------------------------ failed calls
\* The steps of BeginUploadToGpu that can throw: CreateCommittedResource in
\* CreateChunk (101), Map (171), CopyBufferRegion (176).
UploadFailSteps == { "CreateChunk", "Map", "CopyBufferRegion" }

\* BeginUploadToGpu (148-191) up to the step that throws; what the call has
\* done so far stays done.
BeginUploadToGpuFails(key, newResource, step) ==
    /\ ~crashed
    /\ calls < MaxFailCalls
    /\ LET src == calls + 1
           reclaimed == ReclaimAllocations(m_chunks)
           r == Reserve(reclaimed, m_totalCapacity, key.srcSizeInBytes, newResource)
           chunk == r.chunks[r.index]
           mapped == LiveStaging(staging, r.chunks,
                                 IF r.grew THEN {newResource} ELSE {})
       IN  /\ step \in UploadFailSteps
           /\ IF step = "CreateChunk"
              THEN /\ r.grew
                   /\ m_chunks' = reclaimed
                   /\ UNCHANGED << m_totalCapacity, staging >>
                   /\ lastCall' = [NoCall EXCEPT !.op = "uploadFailed", !.key = key]
              ELSE /\ m_chunks' = r.chunks
                   /\ m_totalCapacity' = r.totalCapacity
                   /\ staging' = IF step = "Map" THEN mapped
                                 ELSE WriteStaging(mapped, r.chunks, chunk.resource,
                                                   r.offset, key.srcSizeInBytes, src)
                   /\ lastCall' = [NoCall EXCEPT !.op = "uploadFailed", !.key = key,
                                                 !.resource = chunk.resource,
                                                 !.offset = r.offset, !.grew = r.grew]
    /\ calls' = calls + 1
    /\ UNCHANGED << m_reusableCommandLists, m_reusableCommandListsCache, nodeMem,
                    allocMem, gpuQueue, completed, dstMem, crashed, lastUse,
                    lastRetired >>
    /\ UNCHANGED bucketVars

\* The steps of BeginReusableUploadToGpu that can throw: CreateChunk (101),
\* CreateCommandAllocator and CreateCommandList (234, 239), Map (248, 301),
\* ExecuteCommandList (288, 307).
ReusableFailSteps == { "CreateChunk", "CreateCommandList", "Map", "ExecuteCommandList" }

\* BeginReusableUploadToGpu (193-316) up to the step that throws. The
\* eviction (212-219) and the reclamation (221) come before every such step;
\* on a miss, the locked allocation is pushed (274) before ExecuteCommandList
\* (288) and the entry of the list and of the cache come after it (291-292).
BeginReusableUploadToGpuFails(key, newResource, newAddr, step) ==
    /\ ~crashed
    /\ calls < MaxFailCalls
    /\ LET src == calls + 1
           miss == CacheMiss(m_reusableCommandListsCache, key)
           evict == NeedsEviction(m_reusableCommandListsCache, m_reusableCommandLists, key)
           front == nodeMem[Head(m_reusableCommandLists)]
           unlocked == IF evict THEN Unlock(m_chunks, front.allocation) ELSE m_chunks
           list == IF evict THEN Tail(m_reusableCommandLists) ELSE m_reusableCommandLists
           cache == IF evict THEN CacheErase(m_reusableCommandListsCache, key)
                    ELSE m_reusableCommandListsCache
           reclaimed == ReclaimAllocations(unlocked)
           evicted == IF evict THEN front.commandList.dst ELSE NoKey
       IN  /\ step \in ReusableFailSteps
           /\ m_reusableCommandLists' = list
           /\ m_reusableCommandListsCache' = cache
           /\ IF miss
              THEN
                LET r == Reserve(reclaimed, m_totalCapacity, key.srcSizeInBytes,
                                 newResource)
                    chunk == r.chunks[r.index]
                    mapped == LiveStaging(staging, r.chunks,
                                          IF r.grew THEN {newResource} ELSE {})
                    allocation == [addr |-> newAddr, sizeInBytes |-> key.srcSizeInBytes,
                                   offsetInChunk |-> r.offset,
                                   doneEvent |-> GetCurrentCompletionEvent,
                                   locked |-> TRUE]
                    placed == [NoCall EXCEPT !.op = "reusableFailed", !.key = key,
                                             !.evicted = evicted,
                                             !.resource = chunk.resource,
                                             !.offset = r.offset, !.grew = r.grew]
                IN  CASE step = "CreateChunk" ->
                           /\ r.grew
                           /\ m_chunks' = reclaimed
                           /\ UNCHANGED << m_totalCapacity, staging, allocMem >>
                           /\ lastCall' = [NoCall EXCEPT !.op = "reusableFailed",
                                                         !.key = key,
                                                         !.evicted = evicted]
                      [] step \in { "CreateCommandList", "Map" } ->
                           /\ m_chunks' = r.chunks
                           /\ m_totalCapacity' = r.totalCapacity
                           /\ staging' = mapped
                           /\ UNCHANGED allocMem
                           /\ lastCall' = placed
                      [] step = "ExecuteCommandList" ->
                           /\ newAddr \in AllocAddrChoices(reclaimed)
                           /\ m_chunks' = PushAllocation(r.chunks, r.index, allocation)
                           /\ m_totalCapacity' = r.totalCapacity
                           /\ allocMem' = (newAddr :> r.offset) @@ allocMem
                           /\ staging' = WriteStaging(mapped, r.chunks, chunk.resource,
                                                      r.offset, key.srcSizeInBytes, src)
                           /\ lastCall' = placed
              ELSE
                LET node == nodeMem[m_reusableCommandListsCache[key]]
                    offsetInChunk == OffsetThrough(reclaimed, node.allocation)
                IN  /\ step \in { "Map", "ExecuteCommandList" }
                    /\ m_chunks' = reclaimed
                    /\ staging' = IF step = "Map" THEN staging
                                  ELSE WriteStaging(staging, reclaimed,
                                                    node.chunkResource, offsetInChunk,
                                                    key.srcSizeInBytes, src)
                    /\ lastCall' = [NoCall EXCEPT !.op = "reusableFailed", !.key = key,
                                                  !.hit = TRUE,
                                                  !.resource = node.chunkResource,
                                                  !.offset = offsetInChunk]
                    /\ UNCHANGED << m_totalCapacity, allocMem >>
    /\ calls' = calls + 1
    /\ UNCHANGED << nodeMem, gpuQueue, completed, dstMem, crashed, lastUse,
                    lastRetired >>
    /\ UNCHANGED bucketVars

\* ------------------------------------------------------------------- Trim
\* Mutant of RemoveEmptyChunks: no chunk is removed.
RemoveEmptyChunks_KeepsAll(chunks) == chunks

\* std::remove_if + erase of the chunks with no allocation (325-328)
RemoveEmptyChunks(chunks) ==
    SelectSeq(chunks, LAMBDA c : c.allocations # << >>)

\* Mutant of RecalculatedCapacity: the total is left as it was.
RecalculatedCapacity_Stale(chunks, oldTotal) == oldTotal

\* The recalculation of m_totalCapacity (331-335)
RecalculatedCapacity(chunks, oldTotal) == SumCapacity(chunks)

\* Trim (318-336)
Trim ==
    /\ ~crashed
    /\ LET chunks == RemoveEmptyChunks(ReclaimAllocations(m_chunks))
       IN  /\ m_chunks' = chunks
           /\ m_totalCapacity' = RecalculatedCapacity(chunks, m_totalCapacity)
           /\ staging' = LiveStaging(staging, chunks, {})
    /\ lastCall' = [NoCall EXCEPT !.op = "trim"]
    /\ UNCHANGED << m_reusableCommandLists, m_reusableCommandListsCache, nodeMem,
                    allocMem, gpuQueue, completed, dstMem, calls, crashed, lastUse,
                    lastRetired >>
    /\ UNCHANGED bucketVars

\* ---------------------------------------------------------------- the GPU
\* The queue retires the oldest copy: the bytes now at (srcResource,
\* srcOffset) reach dst, and the fence advances.
GpuRetire ==
    /\ ~crashed
    /\ gpuQueue # << >>
    /\ LET copy == Head(gpuQueue)
       IN  /\ dstMem' = [dstMem EXCEPT ![copy.dst] =
                            ReadStaging(staging, copy.srcResource, copy.srcOffset,
                                        copy.sizeInBytes)]
           /\ lastRetired' = [key |-> copy.reqKey, data |-> copy.reqData]
    /\ gpuQueue' = Tail(gpuQueue)
    /\ completed' = completed + 1
    /\ UNCHANGED << m_chunks, m_totalCapacity, m_reusableCommandLists,
                    m_reusableCommandListsCache, nodeMem, allocMem, staging, calls,
                    crashed, lastCall, lastUse >>
    /\ UNCHANGED bucketVars

\* Every address an object could be given: the fresh one or one used before.
AllocAddrs == { calls + 1 } \cup DOMAIN allocMem

NodeAddrs == { calls + 1 } \cup DOMAIN nodeMem

Next ==
    \/ \E key \in Keys, newResource \in ResourceChoices, newAddr \in AllocAddrs :
            BeginUploadToGpu(key, newResource, newAddr)
    \/ \E key \in Keys, newResource \in ResourceChoices,
          newAddr \in AllocAddrs, newNode \in NodeAddrs :
            BeginReusableUploadToGpu(key, newResource, newAddr, newNode)
    \/ \E key \in Keys : BeginReusableUploadToGpuFault(key)
    \/ Trim
    \/ GpuRetire

Spec == Init /\ [][Next]_vars

\* The heap when any step that can throw may do so.
NextFail ==
    \/ \E key \in Keys, newResource \in ResourceChoices, newAddr \in AllocAddrs :
            calls < MaxFailCalls /\ BeginUploadToGpu(key, newResource, newAddr)
    \/ \E key \in Keys, newResource \in ResourceChoices,
          newAddr \in AllocAddrs, newNode \in NodeAddrs :
            /\ calls < MaxFailCalls
            /\ BeginReusableUploadToGpu(key, newResource, newAddr, newNode)
    \/ \E key \in Keys :
            calls < MaxFailCalls /\ BeginReusableUploadToGpuFault(key)
    \/ \E key \in Keys, newResource \in ResourceChoices, step \in UploadFailSteps :
            BeginUploadToGpuFails(key, newResource, step)
    \/ \E key \in Keys, newResource \in ResourceChoices, newAddr \in AllocAddrs,
          step \in ReusableFailSteps :
            BeginReusableUploadToGpuFails(key, newResource, newAddr, step)
    \/ Trim
    \/ GpuRetire

SpecFail == Init /\ [][NextFail]_vars

\* The bucket allocator's public operations.
NextBucket ==
    \/ \E size \in Sizes : Alloc(size)
    \/ \E i \in DOMAIN pointers : Free(i)
    \/ \E roundingMode \in RoundingModes : SetDefaultRoundingMode(roundingMode)

SpecBucket == Init /\ [][NextBucket]_vars

\* ================================================================ claims

\* ---- C1 -----------------------------------------------------------------
\* C1: in every reachable state, every allocation of every chunk ends within
\* the chunk's capacity and starts at a multiple of c_allocationAlignment,
\* and no two allocations of one chunk overlap.
C1_AllocationsWellPlaced ==
    \A i \in DOMAIN m_chunks :
        LET chunk == m_chunks[i]
        IN  \A j \in DOMAIN chunk.allocations :
                LET alloc == chunk.allocations[j]
                IN  /\ alloc.offsetInChunk + alloc.sizeInBytes <= chunk.capacityInBytes
                    /\ alloc.offsetInChunk % c_allocationAlignment = 0
                    /\ \A k \in DOMAIN chunk.allocations :
                          k # j =>
                            ~Overlaps(alloc.offsetInChunk, alloc.sizeInBytes,
                                      chunk.allocations[k].offsetInChunk,
                                      chunk.allocations[k].sizeInBytes)

\* A chunk used as a ring: a locked and an unlocked allocation share it, and
\* the newest allocation was placed, after a wrap, before the oldest one.
C1_Witness ==
    \E i \in DOMAIN m_chunks :
        LET allocs == m_chunks[i].allocations
        IN  /\ Len(allocs) >= 2
            /\ allocs[Len(allocs)].offsetInChunk < allocs[1].offsetInChunk
            /\ \E j \in DOMAIN allocs : allocs[j].locked
            /\ \E j \in DOMAIN allocs : ~allocs[j].locked

\* ---- C2 -----------------------------------------------------------------
\* C2: in every reachable state m_chunks is sorted by non-decreasing
\* capacityInBytes and m_totalCapacity is the sum of the chunks' capacities.
C2_SortedAndTotalled ==
    /\ \A i, j \in DOMAIN m_chunks :
          i < j => m_chunks[i].capacityInBytes <= m_chunks[j].capacityInBytes
    /\ m_totalCapacity = SumCapacity(m_chunks)

\* The first chunk ever created was dropped by Trim, and the last call had
\* to create a chunk next to one that survived.
C2_Witness ==
    /\ lastCall.grew
    /\ Len(m_chunks) >= 2
    /\ 1 \notin LiveResources(m_chunks)
    /\ m_chunks[1].capacityInBytes < m_chunks[Len(m_chunks)].capacityInBytes

\* ---- C3 -----------------------------------------------------------------
\* C3: in every reachable state the cache map and the list of command lists
\* have the same number of entries, and every cache entry names a node that
\* is in the list (the key of an evicted entry is gone from the cache).
C3_CacheMatchesList ==
    /\ Cardinality(DOMAIN m_reusableCommandListsCache) = Len(m_reusableCommandLists)
    /\ \A k \in DOMAIN m_reusableCommandListsCache :
          m_reusableCommandListsCache[k] \in Range(m_reusableCommandLists)

\* ---- C4 -----------------------------------------------------------------
\* The key a list node was recorded for.
KeyOfNode(addr) == nodeMem[addr].commandList.dst

\* C4: when a call evicts, the evicted key is the one whose last use (miss
\* or hit) is the oldest: every entry that stayed in the list was used later.
C4_EvictsLeastRecentlyUsed ==
    lastCall.evicted # NoKey =>
        \A a \in Range(m_reusableCommandLists) :
            KeyOfNode(a) # lastCall.key =>
                lastUse[KeyOfNode(a)] > lastUse[lastCall.evicted]

\* ---- C5 -----------------------------------------------------------------
\* C5: the list of reusable command lists never holds more than
\* maxReusableCommandLists entries.
C5_ListBounded ==
    Len(m_reusableCommandLists) <= maxReusableCommandLists

\* A miss found the list full, evicted, and the list is full again.
C5_Witness ==
    /\ lastCall.op = "reusable"
    /\ lastCall.evicted # NoKey
    /\ Len(m_reusableCommandLists) = maxReusableCommandLists

\* ---- C6 -----------------------------------------------------------------
\* The step evicts the command list that references the allocation at addr.
EvictsOwnerOf(addr) ==
    /\ calls' = calls + 1
    /\ lastCall'.evicted # NoKey
    /\ m_reusableCommandLists # << >>
    /\ nodeMem[Head(m_reusableCommandLists)].allocation = addr

\* The allocation is still recorded after the step, in the same chunk
\* resource at the same place, still locked, and nothing overlaps it.
StaysReserved(alloc, resource) ==
    \E i \in DOMAIN m_chunks' :
        LET allocs == m_chunks'[i].allocations
        IN  /\ m_chunks'[i].resource = resource
            /\ \E j \in DOMAIN allocs :
                  /\ allocs[j].addr = alloc.addr
                  /\ allocs[j].offsetInChunk = alloc.offsetInChunk
                  /\ allocs[j].sizeInBytes = alloc.sizeInBytes
                  /\ allocs[j].locked
                  /\ \A k \in DOMAIN allocs :
                        k # j => ~Overlaps(allocs[j].offsetInChunk, allocs[j].sizeInBytes,
                                           allocs[k].offsetInChunk, allocs[k].sizeInBytes)

\* C6: a locked allocation, whatever the state of its doneEvent, survives
\* every step in its place and is not handed to another request, except
\* the step that evicts the command list that references it.
C6_LockedStaysUntilEvicted ==
    [][ \A i \in DOMAIN m_chunks :
          \A j \in DOMAIN m_chunks[i].allocations :
            LET alloc == m_chunks[i].allocations[j]
            IN  (alloc.locked /\ ~EvictsOwnerOf(alloc.addr))
                    => StaysReserved(alloc, m_chunks[i].resource) ]_vars

\* Trim has just reclaimed, and a locked allocation whose doneEvent (0: no
\* copy was pending when it was taken) is signaled is still there.
C6_Witness ==
    /\ lastCall.op = "trim"
    /\ \E a \in AllAllocations(m_chunks) :
          a.locked /\ a.doneEvent = 0 /\ IsSignaled(a.doneEvent)

\* ---- C7 -----------------------------------------------------------------
\* C7: when the copy of a call retires (its completion event fires), the
\* destination range of that call holds the bytes the call was given.
C7_RoundTrip ==
    lastRetired.key # NoKey => dstMem[lastRetired.key] = lastRetired.data

\* ---- C8 -----------------------------------------------------------------
\* C8: a BeginReusableUploadToGpu call that directly follows the call that
\* allocated the slot for the same key is a hit: it adds no allocation, no
\* chunk and no list entry, and uses the offset and chunk of the first call.
C8_SecondCallReuses ==
    [][ ( /\ lastCall.op = "reusable"
          /\ ~lastCall.hit
          /\ calls' = calls + 1
          /\ lastCall'.op = "reusable"
          /\ lastCall'.key = lastCall.key )
        => ( /\ lastCall'.hit
             /\ LiveAllocAddrs(m_chunks') \subseteq LiveAllocAddrs(m_chunks)
             /\ Len(m_chunks') = Len(m_chunks)
             /\ m_totalCapacity' = m_totalCapacity
             /\ m_reusableCommandLists' = m_reusableCommandLists
             /\ m_reusableCommandListsCache' = m_reusableCommandListsCache
             /\ lastCall'.offset = lastCall.offset
             /\ lastCall'.resource = lastCall.resource ) ]_vars

\* Two calls were made, and the second one was a hit on the slot of the first.
C8_Witness ==
    /\ calls = 2
    /\ lastCall.op = "reusable"
    /\ lastCall.hit
    /\ Len(m_reusableCommandLists) = 1
    /\ Cardinality(AllAllocations(m_chunks)) = 1

\* ---- C9 -----------------------------------------------------------------
\* C9: a cache hit submits the stored command list once more, returns the
\* completion event that is current after it, and stores that event in the
\* allocation the list node references, replacing an older event.
C9_HitRefreshesDoneEvent ==
    [][ ( /\ calls' = calls + 1
          /\ lastCall'.op = "reusable"
          /\ lastCall'.hit )
        => LET node == nodeMem[m_reusableCommandListsCache[lastCall'.key]]
           IN  /\ Len(gpuQueue') = Len(gpuQueue) + 1
               /\ gpuQueue'[Len(gpuQueue')].srcResource = node.commandList.srcResource
               /\ gpuQueue'[Len(gpuQueue')].srcOffset = node.commandList.srcOffset
               /\ gpuQueue'[Len(gpuQueue')].dst = node.commandList.dst
               /\ lastCall'.ret = Submitted'
               /\ \A a \in AllAllocations(m_chunks') :
                     a.addr = node.allocation => a.doneEvent = lastCall'.ret
               /\ \A a \in AllAllocations(m_chunks) :
                     a.addr = node.allocation => a.doneEvent < lastCall'.ret
               /\ lastCall.op = "reusable" => lastCall.ret < lastCall'.ret ]_vars

\* The second of two calls was a hit, and the locked allocation of its list
\* node carries the event that call returned.
C9_Witness ==
    /\ calls = 2
    /\ lastCall.op = "reusable"
    /\ lastCall.hit
    /\ \E a \in AllAllocations(m_chunks) :
          /\ a.addr = nodeMem[m_reusableCommandListsCache[lastCall.key]].allocation
          /\ a.locked
          /\ a.doneEvent = lastCall.ret
          /\ a.doneEvent = 2

\* ---- C10 ----------------------------------------------------------------
\* The step is a BeginUploadToGpu of sizeInBytes bytes.
IsUpload(sizeInBytes) ==
    /\ calls' = calls + 1
    /\ lastCall'.op = "upload"
    /\ lastCall'.key.srcSizeInBytes = sizeInBytes

\* One chunk of 1024 bytes that holds exactly the given (offset, size) pairs,
\* all of them unlocked.
SingleChunkHolds(places) ==
    /\ Len(m_chunks) = 1
    /\ m_chunks[1].capacityInBytes = 1024
    /\ Len(m_chunks[1].allocations) = Len(places)
    /\ \A j \in DOMAIN places :
          /\ m_chunks[1].allocations[j].offsetInChunk = places[j][1]
          /\ m_chunks[1].allocations[j].sizeInBytes = places[j][2]
          /\ ~m_chunks[1].allocations[j].locked

\* The first two uploads of the scenario: 300 bytes go to offset 0 of a new
\* chunk of 1024 bytes, then 200 bytes to offset 304 of it.
RingScenarioStart ==
    /\ (m_chunks = << >> /\ m_totalCapacity = 0 /\ IsUpload(300))
          => /\ Len(m_chunks') = 1
             /\ m_chunks'[1].capacityInBytes = 1024
             /\ lastCall'.offset = 0
    /\ (/\ SingleChunkHolds(<< <<0, 300>> >>)
        /\ ~IsSignaled(m_chunks[1].allocations[1].doneEvent)
        /\ IsUpload(200))
          => /\ Len(m_chunks') = 1
             /\ lastCall'.resource = m_chunks[1].resource
             /\ lastCall'.offset = 304

\* The third upload comes when the first allocation's event has fired and
\* the second one's has not.
RingScenarioThird ==
    /\ SingleChunkHolds(<< <<0, 300>>, <<304, 200>> >>)
    /\ IsSignaled(m_chunks[1].allocations[1].doneEvent)
    /\ ~IsSignaled(m_chunks[1].allocations[2].doneEvent)
    /\ IsUpload(600)

\* C10 as stated: the upload of 600 bytes is placed at offset 512 of the
\* same chunk and no chunk is created.
C10_Original ==
    [][ /\ RingScenarioStart
        /\ RingScenarioThird
              => /\ Len(m_chunks') = 1
                 /\ lastCall'.resource = m_chunks[1].resource
                 /\ lastCall'.offset = 512 ]_vars

\* C10 amended: 300 bytes at offset 0, 200 bytes at offset 304; the upload
\* of 600 bytes does not fit the chunk (512 + 600 > 1024, 600 > 304): a
\* second chunk of 1024 bytes is created and the upload is placed at its
\* offset 0, while the first chunk keeps the 200 bytes at offset 304.
C10_Amended ==
    [][ /\ RingScenarioStart
        /\ RingScenarioThird
              => /\ Len(m_chunks') = 2
                 /\ lastCall'.grew
                 /\ m_chunks'[2].capacityInBytes = 1024
                 /\ m_totalCapacity' = 2048
                 /\ lastCall'.resource = m_chunks'[2].resource
                 /\ lastCall'.offset = 0
                 /\ Len(m_chunks'[1].allocations) = 1
                 /\ m_chunks'[1].allocations[1].offsetInChunk = 304
                 /\ Len(m_chunks'[2].allocations) = 1
                 /\ m_chunks'[2].allocations[1].offsetInChunk = 0
                 /\ m_chunks'[2].allocations[1].sizeInBytes = 600 ]_vars

\* The state the three uploads of the scenario lead to.
C10_Witness ==
    /\ calls = 3
    /\ lastCall.op = "upload"
    /\ lastCall.key.srcSizeInBytes = 600
    /\ lastCall.grew
    /\ Len(m_chunks) = 2
    /\ Len(m_chunks[1].allocations) = 1
    /\ m_chunks[1].allocations[1].offsetInChunk = 304
    /\ m_chunks[1].allocations[1].sizeInBytes = 200
    /\ ~m_chunks[1].allocations[1].locked
    /\ Len(m_chunks[2].allocations) = 1
    /\ m_chunks[2].allocations[1].offsetInChunk = 0
    /\ m_chunks[2].allocations[1].sizeInBytes = 600

\* ---- C11 ----------------------------------------------------------------
\* The allocations of a chunk that reclamation leaves in place.
LiveAfterReclaim(chunk) ==
    { a \in Range(chunk.allocations) : a.locked \/ ~IsSignaled(a.doneEvent) }

SetMax(S) == CHOOSE x \in S : \A y \in S : y <= x

SetMin(S) == CHOOSE x \in S : \A y \in S : x <= y

\* chunk.freeContiguous: the largest contiguous byte range of the chunk that
\* no live allocation covers, after reclamation.
FreeContiguous(chunk) ==
    LET live == LiveAfterReclaim(chunk)
        begins == {0} \cup { a.offsetInChunk + a.sizeInBytes : a \in live }
        ends == { chunk.capacityInBytes } \cup { a.offsetInChunk : a \in live }
        gaps == { g \in begins \X ends :
                    /\ g[1] < g[2]
                    /\ \A a \in live :
                          ~Overlaps(g[1], g[2] - g[1],
                                    a.offsetInChunk, a.sizeInBytes) }
    IN  SetMax({0} \cup { g[2] - g[1] : g \in gaps })

\* The step is a BeginUploadToGpu.
IsUploadStep == calls' = calls + 1 /\ lastCall'.op = "upload"

NoGrowth == Len(m_chunks') = Len(m_chunks) /\ m_totalCapacity' = m_totalCapacity

\* C11 as stated: an upload of at most c_allocationAlignment +
\* chunk.freeContiguous bytes, for some existing chunk, leaves the number of
\* chunks and m_totalCapacity as they are.
C11_Original ==
    [][ (/\ IsUploadStep
         /\ \E i \in DOMAIN m_chunks :
               lastCall'.key.srcSizeInBytes
                  <= c_allocationAlignment + FreeContiguous(m_chunks[i]))
            => NoGrowth ]_vars

\* The most recently added and the oldest of the live allocations of a chunk.
LastLive(chunk) ==
    LET live == SelectSeq(chunk.allocations,
                          LAMBDA a : a.locked \/ ~IsSignaled(a.doneEvent))
    IN  live[Len(live)]

FirstLive(chunk) ==
    LET live == SelectSeq(chunk.allocations,
                          LAMBDA a : a.locked \/ ~IsSignaled(a.doneEvent))
    IN  live[1]

\* The free bytes from the aligned end of the most recent allocation up to
\* the next live allocation above it, or up to the end of the chunk.
TailFree(chunk) ==
    LET last == LastLive(chunk)
        begin == ((last.offsetInChunk + last.sizeInBytes + 15) \div 16) * 16
        above == { a.offsetInChunk : a \in
                     { b \in LiveAfterReclaim(chunk) :
                         b.offsetInChunk > last.offsetInChunk } }
    IN  SetMin(above \cup { chunk.capacityInBytes }) - begin

\* The free bytes from offset 0 up to the lowest live allocation.
HeadFree(chunk) ==
    SetMin({ a.offsetInChunk : a \in LiveAfterReclaim(chunk) })

\* The ring buffer of the chunk has room for sizeInBytes next to its live span.
RingHasRoom(chunk, sizeInBytes) ==
    /\ sizeInBytes <= chunk.capacityInBytes
    /\ \/ LiveAfterReclaim(chunk) = {}
       \/ sizeInBytes <= TailFree(chunk)
       \/ /\ FirstLive(chunk).offsetInChunk <= LastLive(chunk).offsetInChunk
          /\ sizeInBytes <= HeadFree(chunk)

\* C11 amended: BeginUploadToGpu leaves the number of chunks and
\* m_totalCapacity as they are when, after reclamation, some existing chunk
\* of at least src.size() bytes is empty, or has src.size() free bytes from
\* the aligned end of its most recent allocation up to the next live
\* allocation above it or the chunk's end, or, its most recent allocation
\* not lying below its oldest one, has src.size() free bytes from offset 0
\* up to its lowest live allocation.
C11_Amended ==
    [][ (/\ IsUploadStep
         /\ \E i \in DOMAIN m_chunks :
               RingHasRoom(m_chunks[i], lastCall'.key.srcSizeInBytes))
            => NoGrowth ]_vars

\* An upload that went to the beginning of a chunk that holds older
\* allocations, with no chunk created.
C11_Witness ==
    /\ lastCall.op = "upload"
    /\ ~lastCall.grew
    /\ lastCall.offset = 0
    /\ \E i \in DOMAIN m_chunks :
          /\ m_chunks[i].resource = lastCall.resource
          /\ Len(m_chunks[i].allocations) >= 2
          /\ m_chunks[i].allocations[Len(m_chunks[i].allocations)].offsetInChunk = 0

\* ---- C12 ----------------------------------------------------------------
\* The step is a Trim.
IsTrimStep ==
    /\ lastCall'.op = "trim"
    /\ UNCHANGED << gpuQueue, completed, calls, crashed >>

\* The allocations of a chunk that are locked or whose event has not fired,
\* in their order.
Survivors(chunk) ==
    SelectSeq(chunk.allocations, LAMBDA a : a.locked \/ ~IsSignaled(a.doneEvent))

\* The chunks that keep an allocation, in their order, each with its capacity
\* and resource and with its surviving allocations.
SurvivingChunks ==
    SelectSeq([i \in DOMAIN m_chunks |->
                  [capacityInBytes |-> m_chunks[i].capacityInBytes,
                   resource |-> m_chunks[i].resource,
                   allocations |-> Survivors(m_chunks[i])]],
              LAMBDA c : Len(c.allocations) > 0)

\* C12: after Trim no chunk has an empty allocation list, no allocation that
\* is left is both unlocked and signaled, the chunks with a surviving
\* allocation are all still there with capacity, allocations and order
\* unchanged, and m_totalCapacity is the sum of the remaining capacities; when
\* every allocation is unlocked and signaled, no chunk and no capacity is left.
C12_TrimPostcondition ==
    [][ IsTrimStep =>
          /\ \A i \in DOMAIN m_chunks' : m_chunks'[i].allocations # << >>
          /\ \A a \in AllAllocations(m_chunks') :
                ~(~a.locked /\ IsSignaled(a.doneEvent))
          /\ m_chunks' = SurvivingChunks
          /\ m_totalCapacity' = SumCapacity(m_chunks')
          /\ (\A a \in AllAllocations(m_chunks) :
                 ~a.locked /\ IsSignaled(a.doneEvent))
                => (m_chunks' = << >> /\ m_totalCapacity' = 0) ]_vars

\* A Trim has released a chunk and kept another one, whose allocation is
\* locked and signaled.
C12_Witness ==
    /\ lastCall.op = "trim"
    /\ DanglingResources # {}
    /\ m_chunks # << >>
    /\ m_totalCapacity = SumCapacity(m_chunks)
    /\ \E a \in AllAllocations(m_chunks) : a.locked /\ IsSignaled(a.doneEvent)

\* ---- C18 ----------------------------------------------------------------
\* The chunk resources that the entries of m_reusableCommandListsCache and of
\* m_reusableCommandLists name through chunkResource.
CachedChunkResources ==
    { nodeMem[m_reusableCommandListsCache[k]].chunkResource :
        k \in DOMAIN m_reusableCommandListsCache }
    \cup { nodeMem[n].chunkResource : n \in Range(m_reusableCommandLists) }

\* C18: Trim removes no chunk whose allocation list holds a locked
\* allocation and no chunk whose resource an entry of the command-list cache
\* or of the LRU list still names as its chunkResource.
C18_TrimKeepsReferencedChunks ==
    [][ IsTrimStep =>
          \A i \in DOMAIN m_chunks :
             (\/ \E a \in Range(m_chunks[i].allocations) : a.locked
              \/ m_chunks[i].resource \in CachedChunkResources)
                => m_chunks[i].resource \in LiveResources(m_chunks') ]_vars

\* The part of C18 about locked allocations alone.
C18_LockedPart ==
    [][ IsTrimStep =>
          \A i \in DOMAIN m_chunks :
             (\E a \in Range(m_chunks[i].allocations) : a.locked)
                => m_chunks[i].resource \in LiveResources(m_chunks') ]_vars

\* The part of C18 about the entries of the LRU list alone.
C18_ListPart ==
    [][ IsTrimStep =>
          \A i \in DOMAIN m_chunks :
             (m_chunks[i].resource \in
                 { nodeMem[n].chunkResource : n \in Range(m_reusableCommandLists) })
                => m_chunks[i].resource \in LiveResources(m_chunks') ]_vars

\* ---- C19 ----------------------------------------------------------------
\* The step is a BeginReusableUploadToGpu that misses with a full LRU list.
IsEvictingMiss ==
    /\ calls' = calls + 1
    /\ lastCall'.op = "reusable"
    /\ ~lastCall'.hit
    /\ Len(m_reusableCommandLists) = maxReusableCommandLists

\* The allocation of the oldest entry of the LRU list.
OldestAllocation ==
    CHOOSE a \in AllAllocations(m_chunks) :
        a.addr = nodeMem[Head(m_reusableCommandLists)].allocation

\* The chunk without the allocation at addr.
ChunkWithout(chunk, addr) ==
    [chunk EXCEPT !.allocations = SelectSeq(@, LAMBDA a : a.addr # addr)]

\* The allocation is the one the call has just added.
IsNewAllocation(chunks, a) ==
    \E i \in DOMAIN chunks :
       /\ chunks[i].resource = lastCall'.resource
       /\ chunks[i].allocations[Len(chunks[i].allocations)] = a
       /\ a.offsetInChunk = lastCall'.offset
       /\ a.locked

\* C19: on a miss with a full LRU list whose oldest entry's allocation has a
\* signaled doneEvent, that allocation is unlocked and removed from its chunk
\* within the call, before the new request is placed: it is gone after the
\* call, and a chunk that has room once its bytes are free takes the request
\* with no chunk created.
C19_EvictionBeforeReclaim ==
    [][ (IsEvictingMiss /\ IsSignaled(OldestAllocation.doneEvent))
          => /\ \A a \in AllAllocations(m_chunks') :
                   a.addr = OldestAllocation.addr => IsNewAllocation(m_chunks', a)
             /\ (\E i \in DOMAIN m_chunks :
                    RingHasRoom(ChunkWithout(m_chunks[i], OldestAllocation.addr),
                                lastCall'.key.srcSizeInBytes))
                   => ~lastCall'.grew ]_vars

\* A miss has evicted an entry and placed its request, with no chunk created,
\* on bytes that the evicted entry's allocation held.
C19_Witness ==
    /\ lastCall.op = "reusable"
    /\ ~lastCall.hit
    /\ lastCall.evicted # NoKey
    /\ ~lastCall.grew
    /\ lastCall.evicted \in DOMAIN m_reusableCommandListsCache
    /\ LET old == nodeMem[m_reusableCommandListsCache[lastCall.evicted]]
       IN  /\ m_reusableCommandListsCache[lastCall.evicted]
                 \notin Range(m_reusableCommandLists)
           /\ old.commandList.dst = lastCall.evicted
           /\ old.chunkResource = lastCall.resource
           /\ Overlaps(old.commandList.srcOffset, old.commandList.sizeInBytes,
                       lastCall.offset, lastCall.key.srcSizeInBytes)

\* ---- C20 ----------------------------------------------------------------
\* C20 as stated: in every chunk the doneEvent values do not decrease from
\* the front of the allocation list to its back.
C20_Original ==
    \A i \in DOMAIN m_chunks :
       \A j, k \in DOMAIN m_chunks[i].allocations :
          j < k => m_chunks[i].allocations[j].doneEvent
                      <= m_chunks[i].allocations[k].doneEvent

\* The step adds an allocation: a BeginUploadToGpu or a miss.
IsPlacingStep ==
    /\ calls' = calls + 1
    /\ lastCall'.op \in {"upload", "reusable"}
    /\ ~lastCall'.hit

\* The chunk that the call has placed its request in, after the call.
PlacedChunk == CHOOSE c \in Range(m_chunks') : c.resource = lastCall'.resource

\* C20 amended: an allocation goes to the back of its chunk's list with a
\* doneEvent that is at least that of every allocation already in the list,
\* and its place is the one the call reports; the order by doneEvent is lost
\* when a cache hit refreshes the doneEvent of an allocation that is not the
\* last of its chunk, and what ReclaimAllocations removes is then not a prefix.
C20_Amended ==
    [][ IsPlacingStep =>
          LET allocations == PlacedChunk.allocations
              new == allocations[Len(allocations)]
          IN  /\ new.offsetInChunk = lastCall'.offset
              /\ new.sizeInBytes = lastCall'.key.srcSizeInBytes
              /\ new.locked = (lastCall'.op = "reusable")
              /\ \A j \in DOMAIN allocations :
                    allocations[j].doneEvent <= new.doneEvent ]_vars

\* An upload has been appended behind a locked allocation whose doneEvent a
\* cache hit has refreshed.
C20_Witness ==
    /\ lastCall.op = "upload"
    /\ \E i \in DOMAIN m_chunks :
          LET allocations == m_chunks[i].allocations
          IN  /\ m_chunks[i].resource = lastCall.resource
              /\ Len(allocations) >= 2
              /\ allocations[Len(allocations)].doneEvent = lastCall.ret
              /\ allocations[1].locked
              /\ allocations[1].doneEvent >= 2
              /\ allocations[1].doneEvent < lastCall.ret

\* ---- C13 ----------------------------------------------------------------
\* The step is a call that fails.
IsFailedStep ==
    /\ calls' = calls + 1
    /\ lastCall'.op \in { "uploadFailed", "reusableFailed" }

\* The chunks of a list without their allocations.
Shells(chunks) ==
    [i \in DOMAIN chunks |-> [capacityInBytes |-> chunks[i].capacityInBytes,
                              resource |-> chunks[i].resource]]

\* The allocations of a chunk list without their locks.
Placements(chunks) ==
    { [addr |-> a.addr, sizeInBytes |-> a.sizeInBytes,
       offsetInChunk |-> a.offsetInChunk, doneEvent |-> a.doneEvent] :
        a \in AllAllocations(chunks) }

\* C13: a call that fails leaves the chunk list as it was or with the one new
\* chunk it created, records no allocation in any chunk and adds no entry to
\* the LRU list or to the cache.
C13_FailedCallLeavesNoTrace ==
    [][ IsFailedStep =>
          /\ \/ Shells(m_chunks') = Shells(m_chunks)
             \/ /\ Len(m_chunks') = Len(m_chunks) + 1
                /\ SubSeq(Shells(m_chunks'), 1, Len(m_chunks)) = Shells(m_chunks)
          /\ Placements(m_chunks') \subseteq Placements(m_chunks)
          /\ Range(m_reusableCommandLists') \subseteq Range(m_reusableCommandLists)
          /\ DOMAIN m_reusableCommandListsCache'
                \subseteq DOMAIN m_reusableCommandListsCache ]_vars

\* The parts of C13 about the chunk list, the LRU list and the cache.
C13_ChunksAndEntriesPart ==
    [][ IsFailedStep =>
          /\ \/ Shells(m_chunks') = Shells(m_chunks)
             \/ /\ Len(m_chunks') = Len(m_chunks) + 1
                /\ SubSeq(Shells(m_chunks'), 1, Len(m_chunks)) = Shells(m_chunks)
          /\ Range(m_reusableCommandLists') \subseteq Range(m_reusableCommandLists)
          /\ DOMAIN m_reusableCommandListsCache'
                \subseteq DOMAIN m_reusableCommandListsCache ]_vars

\* ---- C14 ----------------------------------------------------------------
\* C14: the IDs of the live allocations are pairwise distinct and none is 0,
\* allocations_by_id maps every live ID to the AllocationInfo that carries
\* it, no live ID is in free_allocation_ids, and current_allocation_id is at
\* least every ID ever issued.
C14_AllocationIds ==
    /\ \A i, j \in DOMAIN pointers : i # j => pointers[i] # pointers[j]
    /\ \A i \in DOMAIN pointers : pointers[i] # 0
    /\ Range(pointers) = DOMAIN allocations_by_id
    /\ \A id \in DOMAIN allocations_by_id : allocations_by_id[id].allocationId = id
    /\ Range(pointers) \cap Range(free_allocation_ids) = {}
    /\ \A id \in issuedIds : id <= current_allocation_id

\* Four Allocs have used the IDs 1 to 3, one of them twice; two allocations
\* are live and a released ID waits in the pool.
C14_Witness ==
    /\ Len(pointers) = 2
    /\ free_allocation_ids # << >>
    /\ allocCalls = 4
    /\ current_allocation_id = 3

\* ---- C15 ----------------------------------------------------------------
\* The step is an Alloc; lastOp'.ptr is the ID it returns.
IsAllocStep == allocCalls' = allocCalls + 1

\* The allocator holds exactly these live IDs and free IDs, in order.
IdsAre(live, freeIds, currentId) ==
    /\ pointers = live
    /\ free_allocation_ids = freeIds
    /\ current_allocation_id = currentId

\* A released ID is taken whenever there is one, and current_allocation_id
\* is incremented only when there is none.
ReusesBeforeMinting ==
    /\ free_allocation_ids # << >>
          => /\ lastOp'.ptr \in Range(free_allocation_ids)
             /\ current_allocation_id' = current_allocation_id
    /\ free_allocation_ids = << >>
          => /\ current_allocation_id' = current_allocation_id + 1
             /\ lastOp'.ptr = current_allocation_id'

\* Fresh allocator: Alloc, Alloc, Free(first), Alloc, Alloc yields 1, 2, 1, 3.
RecyclingScenario ==
    /\ IdsAre(<< >>, << >>, 0) => lastOp'.ptr = 1
    /\ IdsAre(<< 1 >>, << >>, 1) => lastOp'.ptr = 2
    /\ IdsAre(<< 2 >>, << 1 >>, 2) => lastOp'.ptr = 1
    /\ IdsAre(<< 2, 1 >>, << >>, 2) => lastOp'.ptr = 3

C16_ReuseAfterFree ==
    [][ (IsAllocStep /\ m_defaultRoundingMode = "Enabled") =>
          LET bucket == m_pool[lastOp'.bucketIndex]
              resource == allocations_by_id'[lastOp'.ptr].resource
          IN  /\ (lastOp.op = "free" /\ lastOp.bucketIndex = lastOp'.bucketIndex)
                    => /\ resource.resourceId = lastOp.resourceId
                       /\ ~lastOp'.created
                       /\ m_currentResourceId' = m_currentResourceId
              /\ bucket # << >>
                    => /\ resource = bucket[Len(bucket)]
                       /\ m_pool'[lastOp'.bucketIndex] = SubSeq(bucket, 1, Len(bucket) - 1)
                       /\ m_currentResourceId' = m_currentResourceId
              /\ lastOp'.created <=> bucket = << >>
              /\ lastOp'.created <=> m_currentResourceId' = m_currentResourceId + 1 ]_vars

\* The only allocation was freed and an Alloc of 65536 bytes has received its
\* resource, with no backing created.
C16_Witness ==
    /\ lastOp.op = "alloc"
    /\ ~lastOp.created
    /\ lastOp.resourceId = 1
    /\ m_currentResourceId = 1
    /\ allocCalls = 2
    /\ pointers = << 1 >>
    /\ allocations_by_id[1].requestedSize = 65536
    /\ allocations_by_id[1].resource.resourceId = 1

\* ---- C17 ----------------------------------------------------------------
\* C17: for every allocation made with rounding Enabled, GetAllocationInfo
\* reports the bucket index i for which 2^(16+i), the size of the backing, is
\* the smallest power of two that is at least max(size, 2^16): index 0 for
\* 100 bytes, 1 for 65537 bytes, 4 for 1 << 20 bytes.
C17_BucketOfSize ==
    \A ptr \in Range(pointers) :
       LET info == GetAllocationInfo(ptr)
           size == info.requestedSize
           index == info.bucketIndex
       IN  info.roundingMode = "Enabled" =>
              /\ index >= 0
              /\ info.resource.sizeInBytes = 2 ^ (16 + index)
              /\ 2 ^ (16 + index) >= size
              /\ \A smaller \in 0..(index - 1) : 2 ^ (16 + smaller) < size
              /\ size = 100 => index = 0 /\ info.resource.sizeInBytes = 65536
              /\ size = 65537 => index = 1 /\ info.resource.sizeInBytes = 131072
              /\ size = 1048576 => index = 4 /\ info.resource.sizeInBytes = 1048576

\* Allocations of 100, 65537 and 1 << 20 bytes are live.
C17_Witness ==
    /\ m_defaultRoundingMode = "Enabled"
    /\ Len(pointers) = 3
    /\ { GetAllocationInfo(pointers[i]).requestedSize : i \in DOMAIN pointers }
          = { 100, 65537, 1048576 }
    /\ { GetAllocationInfo(pointers[i]).bucketIndex : i \in DOMAIN pointers }
          = { 0, 1, 4 }

\* ---- C21 ----------------------------------------------------------------
\* The copy still has its staging bytes reserved: an allocation of its
\* source chunk holds exactly the range it reads.
SourceReserved(copy) ==
    \E i \in DOMAIN m_chunks :
       /\ m_chunks[i].resource = copy.srcResource
       /\ \E a \in Range(m_chunks[i].allocations) :
             /\ a.offsetInChunk = copy.srcOffset
             /\ a.sizeInBytes = copy.sizeInBytes

\* C21: no staging allocation is reclaimed while a copy that reads its bytes
\* has not retired: every copy in the queue still has its source range
\* reserved, also that of an entry evicted before any hit, because the
\* doneEvent of a miss-path allocation covers its command list's execution.
C21_ReservedUntilCopyRetires ==
    \A i \in DOMAIN gpuQueue : SourceReserved(gpuQueue[i])

\* The part of C21 about the stored event alone: the allocation that a miss
\* adds carries the event that fires when its own copy has retired.
C21_MissEventCoversCopy ==
    [][ (IsPlacingStep /\ lastCall'.op = "reusable") =>
          LET allocations == PlacedChunk.allocations
          IN  allocations[Len(allocations)].doneEvent >= Submitted' ]_vars

\* The same for BeginUploadToGpu, whose event is taken after the copy is
\* enqueued.
C21_UploadEventCoversCopy ==
    [][ (IsPlacingStep /\ lastCall'.op = "upload") =>
          LET allocations == PlacedChunk.allocations
          IN  allocations[Len(allocations)].doneEvent >= Submitted' ]_vars

\* ---- C22 ----------------------------------------------------------------
\* The entries of m_reusableCommandLists that point to the allocation at addr.
EntriesOf(addr) ==
    { i \in DOMAIN m_reusableCommandLists :
        nodeMem[m_reusableCommandLists[i]].allocation = addr }

\* C22: every locked allocation is referenced by exactly one entry of
\* m_reusableCommandLists, and every entry references an allocation that is
\* in a chunk and locked.
C22_LockedMatchesEntries ==
    /\ \A a \in AllAllocations(m_chunks) :
          a.locked => Cardinality(EntriesOf(a.addr)) = 1
    /\ \A i \in DOMAIN m_reusableCommandLists :
          \E a \in AllAllocations(m_chunks) :
             /\ a.addr = nodeMem[m_reusableCommandLists[i]].allocation
             /\ a.locked

\* The part of C22 that does not depend on how a call ends: no allocation
\* is referenced by two entries, and every entry references an allocation
\* that is in a chunk and locked.
C22_EntriesPart ==
    /\ \A a \in AllAllocations(m_chunks) : Cardinality(EntriesOf(a.addr)) <= 1
    /\ \A i \in DOMAIN m_reusableCommandLists :
          \E a \in AllAllocations(m_chunks) :
             /\ a.addr = nodeMem[m_reusableCommandLists[i]].allocation
             /\ a.locked

\* ---- C23 ----------------------------------------------------------------
\* The key has a live command list in the given list, node contents and
\* chunks: an entry was recorded for it and that entry's allocation is locked
\* in a chunk.
IsLiveKeyIn(key, list, nodes, chunks) ==
    \E i \in DOMAIN list :
       /\ nodes[list[i]].commandList.dst = key
       /\ \E a \in AllAllocations(chunks) :
             a.addr = nodes[list[i]].allocation /\ a.locked

IsLiveKey(key) ==
    IsLiveKeyIn(key, m_reusableCommandLists, nodeMem, m_chunks)

\* The key has a live command list after the step.
IsLiveKeyAfter(key) ==
    IsLiveKeyIn(key, m_reusableCommandLists', nodeMem', m_chunks')

\* The step is a BeginReusableUploadToGpu that returns.
IsReusableStep == calls' = calls + 1 /\ lastCall'.op = "reusable"

\* C23: a BeginReusableUploadToGpu for a key that is not live, such as one
\* that was evicted, takes the miss path and adds a new locked allocation and
\* a new entry; the hit path is taken only for live keys, and the call does
\* not end in an invalid access.
C23_EvictedKeyMisses ==
    [][ /\ IsReusableStep =>
          /\ lastCall'.hit => IsLiveKey(lastCall'.key)
          /\ ~IsLiveKey(lastCall'.key) =>
                /\ ~lastCall'.hit
                /\ Len(PlacedChunk.allocations) > 0
                /\ PlacedChunk.allocations[Len(PlacedChunk.allocations)].locked
                /\ IsLiveKeyAfter(lastCall'.key)
        /\ ~crashed => ~crashed' ]_vars

\* The part of C23 about the keys that were never cached.
C23_NewKeyMisses ==
    [][ (IsReusableStep /\ lastCall'.key \notin DOMAIN m_reusableCommandListsCache)
          => /\ ~lastCall'.hit
             /\ PlacedChunk.allocations[Len(PlacedChunk.allocations)].locked
             /\ IsLiveKeyAfter(lastCall'.key) ]_vars

====
